---- MODULE Spec2Model ----
(***************************************************************************)
(* A model of habrok/demo.py: the command line, the device selection, the  *)
(* dataset load, the 5-epoch training / evaluation loop with its running   *)
(* averages, and the final save of the weights.                            *)
(*                                                                         *)
(* The framework objects are modelled by what the script observes of them: *)
(*   - a dataset is its number of samples; a DataLoader yields              *)
(*     ceil(n / 64) batches, all of 64 samples but possibly the last;       *)
(*   - the forward pass of a batch of b samples is a nondeterministic       *)
(*     outcome: how many of the b samples are classified correctly and the  *)
(*     cross-entropy loss of the batch;                                    *)
(*   - the parameters and the optimizer state are version counters, the     *)
(*     BatchNorm running statistics (buffers) another one, the gradients    *)
(*     the set of batches whose backward pass contributed to them;          *)
(*   - Python floats are exact rationals <<numerator, denominator>> in      *)
(*     lowest terms (float rounding is not modelled);                       *)
(*   - any framework call may raise: the exception is not caught, so the    *)
(*     process ends there.                                                 *)
(***************************************************************************)
EXTENDS Integers, Sequences, FiniteSets, TLC

VARIABLES
    argv,            \* command line after the program name
    cuda_available,  \* torch.cuda.is_available() of the host
    mnist,           \* number of samples of the two MNIST splits on the host
    pc,              \* position in main()
    failed_at,       \* the statement whose call raised ("none": no failure)
    args_arg,        \* args.arg
    stdout,          \* the lines printed so far
    device,          \* device
    train_dataset,   \* number of samples of train_dataset (0: not loaded)
    test_dataset,    \* number of samples of test_dataset (0: not loaded)
    train_len,       \* len(train_dataloader)
    val_len,         \* len(validation_dataloader)
    mlp,             \* the model: device, training flag, params, buffers, grads
    opt_state,       \* number of steps the optimizer has taken
    epoch_it,        \* position of the iterator of range(5)
    epoch,           \* epoch
    loader_it,       \* position of the iterator of the loader being iterated
    X,               \* the current batch X, y
    y_pred,          \* y_pred
    loss,            \* loss
    acc,             \* acc
    train_loss, train_acc, val_loss, val_acc,
    saved,           \* the state dicts written to models/mlp_demo.pt, in order
    batch_trace,     \* history: the steps applied to the current batch
    train_log,       \* history: the batches of the current training pass
    val_log,         \* history: the batches of the current evaluation pass
    val_evals,       \* history: number of validation batches evaluated
    params_at_train_end  \* history: the parameters when the last training pass ended

vars == << argv, cuda_available, mnist, pc, failed_at, args_arg, stdout, device,
           train_dataset, test_dataset, train_len, val_len, mlp, opt_state,
           epoch_it, epoch, loader_it, X, y_pred, loss, acc,
           train_loss, train_acc, val_loss, val_acc, saved,
           batch_trace, train_log, val_log, val_evals, params_at_train_end >>

-----------------------------------------------------------------------------
(* Bounds of the model and constants of the program *)

MaxFull == 1        \* a split holds 1..MaxFull full batches ...
MaxExtra == 1       \* ... plus 0..MaxExtra samples in a last, smaller batch

BatchSize == 64     \* DataLoader(..., batch_size=64)
NumEpochs == 5      \* range(5)

ArgValues == {"habrok"}

DatasetSizes == { f * BatchSize + r : f \in 1..MaxFull, r \in 0..MaxExtra }

-----------------------------------------------------------------------------
(* Floats as exact rationals *)

RECURSIVE GCD(_, _)
GCD(a, b) == IF b = 0 THEN a ELSE GCD(b, a % b)

Rat(n, d) == IF n = 0 THEN <<0, 1>> ELSE << n \div GCD(n, d), d \div GCD(n, d) >>

Zero == Rat(0, 1)

RatAdd(a, b) == Rat(a[1] * b[2] + b[1] * a[2], a[2] * b[2])

RatDiv(a, k) == Rat(a[1], a[2] * k)

-----------------------------------------------------------------------------
(* The command line *)

NoArgs == << >>

Argvs == {NoArgs} \cup { <<"--arg", v>> : v \in ArgValues }

parse_args(av) == IF av = NoArgs THEN "defaul_arg" ELSE av[2]

-----------------------------------------------------------------------------
(* The statements of main(), in program order.  Flow gives the statement    *)
(* that follows each one; for the head of a loop it gives the first          *)
(* statement of the body, LoopExit the statement after the loop.            *)

Flow ==
    [ parse_args     |-> "print_args",      \* 19
      print_args     |-> "select_device",   \* 20
      select_device  |-> "print_device",    \* 24
      print_device   |-> "load_datasets",   \* 25
      load_datasets  |-> "print_loaded",    \* 27-28
      print_loaded   |-> "make_loaders",    \* 29
      make_loaders   |-> "build_model",     \* 31-32
      build_model    |-> "for_epoch",       \* 34-50
      for_epoch      |-> "train_mode",      \* 52
      train_mode     |-> "train_next",      \* 55-56
      train_next     |-> "train_to",        \* 57
      train_to       |-> "train_forward",   \* 58
      train_forward  |-> "train_loss",      \* 59
      train_loss     |-> "train_acc",       \* 60
      train_acc      |-> "zero_grad",       \* 61
      zero_grad      |-> "backward",        \* 62
      backward       |-> "opt_step",        \* 63
      opt_step       |-> "train_accum",     \* 64
      train_accum    |-> "train_next",      \* 65-66
      train_avg      |-> "eval_mode",       \* 67-68
      eval_mode      |-> "val_next",        \* 71-72
      val_next       |-> "val_to",          \* 73
      val_to         |-> "val_forward",     \* 74
      val_forward    |-> "val_loss",        \* 75-76
      val_loss       |-> "val_acc",         \* 77
      val_acc        |-> "val_accum",       \* 78
      val_accum      |-> "val_next",        \* 79-80
      val_avg        |-> "print_metrics",   \* 81-82
      print_metrics  |-> "for_epoch",       \* 84-91
      save           |-> "done" ]           \* 93

\* mutant: the save indented into the loop body, ending the run after it
Succ_SaveInLoop(l) == IF l = "print_metrics" THEN "save" ELSE Flow[l]

\* mutant: the metrics printed between the training and the evaluation pass
Succ_PrintBeforeEval(l) ==
    CASE l = "train_avg"     -> "print_metrics"
      [] l = "print_metrics" -> "eval_mode"
      [] l = "val_avg"       -> "for_epoch"
      [] OTHER               -> Flow[l]

\* mutant: optimizer.step() copied into the evaluation loop
Succ_StepInEval(l) ==
    CASE l = "val_acc"  -> "opt_step"
      [] l = "opt_step" -> IF X.split = "val" THEN "val_accum" ELSE Flow[l]
      [] OTHER          -> Flow[l]

Succ(l) == Flow[l]

LoopExit(l) ==
    CASE l = "for_epoch"  -> "save"
      [] l = "train_next" -> "train_avg"
      [] l = "val_next"   -> "val_avg"

\* The statements that call into the framework in a way that may raise:
\* the dataset load, the device transfers, the forward and backward passes,
\* the optimizer step and the final write.
Fallible == { "load_datasets", "build_model", "train_to", "train_forward",
              "backward", "opt_step", "val_to", "val_forward", "save" }

\* mutant: the exception caught and ignored, the script going on
OnFailure_Swallow(l) == Flow[l]

\* No try/except anywhere in main(): an exception ends the process.
OnFailure(l) == "failed"

TrainBody == { "train_to", "train_forward", "train_loss", "train_acc",
               "zero_grad", "backward", "opt_step", "train_accum" }

ValBody == { "val_to", "val_forward", "val_loss", "val_acc", "val_accum" }

-----------------------------------------------------------------------------
(* The framework, as far as the script observes it *)

SelectedDevice(avail) == IF avail THEN "cuda" ELSE "cpu"

\* mutant: DataLoader(..., drop_last=True)
len_dataloader_DropLast(n) == n \div BatchSize

\* len(DataLoader(dataset, batch_size=64)) with drop_last=False
len_dataloader(n) == (n + BatchSize - 1) \div BatchSize

\* number of samples of the i-th batch (i from 0) of a split of n samples
BatchLen(n, i) == IF (i + 1) * BatchSize <= n THEN BatchSize ELSE n - i * BatchSize

\* mutant: the transfer left out, the tensor staying where it was created
To_Stay(dev) == "cpu"

\* tensor.to(device), module.to(device): where the result lives
To(dev) == dev

\* mlp(X) followed by loss_fn and argmax: the outcomes a batch of b samples
\* can have (none or all of its samples classified correctly, with a loss)
Outcomes(b) == { [correct |-> 0, loss |-> Rat(2, 1)],
                 [correct |-> b, loss |-> Rat(1, 4)] }

\* BatchNorm1d updates its running statistics in a forward pass in training
\* mode only
ForwardBuffers(m) == IF m.training THEN m.buffers + 1 ELSE m.buffers

\* (y_pred.argmax(-1) == y).float().mean()
MeanCorrect(correct, b) == Rat(correct, b)

\* mutant: optimizer.zero_grad() left out
ZeroGrad_Keep(g) == g

\* optimizer.zero_grad()
ZeroGrad(g) == {}

\* loss.backward() adds the gradients of the batch to the .grad in place
Backward(g, batch) == g \cup {batch}

\* mutant: x = v in place of x += v
Accumulate_Overwrite(total, v) == v

\* x += v
Accumulate(total, v) == RatAdd(total, v)

\* x /= len(loader)
Average(total, n) == RatDiv(total, n)

state_dict(m) == [params |-> m.params, buffers |-> m.buffers]

NoModel == [device |-> "none", training |-> TRUE, params |-> 0, buffers |-> 0,
            grads |-> {}]

NoBatch == [split |-> "none", idx |-> 0, size |-> 0, device |-> "none"]

NoPred == [batch |-> <<0, 0>>, correct |-> 0, loss |-> Zero, grad |-> FALSE]

NoLoss == [batch |-> <<0, 0>>, value |-> Zero, grad |-> FALSE]

Line(kind, arg, e) == [kind |-> kind, arg |-> arg, epoch |-> e]

-----------------------------------------------------------------------------
Init ==
    /\ argv \in Argvs
    /\ cuda_available \in BOOLEAN
    /\ mnist \in [train : DatasetSizes, test : DatasetSizes]
    /\ pc = "parse_args"
    /\ failed_at = "none"
    /\ args_arg = ""
    /\ stdout = << >>
    /\ device = "none"
    /\ train_dataset = 0
    /\ test_dataset = 0
    /\ train_len = 0
    /\ val_len = 0
    /\ mlp = NoModel
    /\ opt_state = 0
    /\ epoch_it = 0
    /\ epoch = 0
    /\ loader_it = 0
    /\ X = NoBatch
    /\ y_pred = NoPred
    /\ loss = NoLoss
    /\ acc = Zero
    /\ train_loss = Zero
    /\ train_acc = Zero
    /\ val_loss = Zero
    /\ val_acc = Zero
    /\ saved = << >>
    /\ batch_trace = << >>
    /\ train_log = << >>
    /\ val_log = << >>
    /\ val_evals = 0
    /\ params_at_train_end = 0

env == << argv, cuda_available, mnist >>
accs == << train_loss, train_acc, val_loss, val_acc >>
hist == << batch_trace, train_log, val_log, val_evals, params_at_train_end >>
cur == << X, y_pred, loss, acc >>
data == << train_dataset, test_dataset, train_len, val_len >>
loop == << epoch_it, epoch, loader_it >>

\* args = parse_args()
ParseArgs ==
    /\ pc = "parse_args"
    /\ args_arg' = parse_args(argv)
    /\ pc' = Succ(pc)
    /\ UNCHANGED << env, failed_at, stdout, device, data, mlp, opt_state, loop,
                    cur, accs, saved, hist >>

\* print(f'Passed arguments: arg = {args.arg}')
PrintArgs ==
    /\ pc = "print_args"
    /\ stdout' = Append(stdout, Line("args", args_arg, 0))
    /\ pc' = Succ(pc)
    /\ UNCHANGED << env, failed_at, args_arg, device, data, mlp, opt_state, loop,
                    cur, accs, saved, hist >>

\* device = 'cuda' if torch.cuda.is_available() else 'cpu'
SelectDevice ==
    /\ pc = "select_device"
    /\ device' = SelectedDevice(cuda_available)
    /\ pc' = Succ(pc)
    /\ UNCHANGED << env, failed_at, args_arg, stdout, data, mlp, opt_state, loop,
                    cur, accs, saved, hist >>

\* print(f'Using {device}', flush=True)
PrintDevice ==
    /\ pc = "print_device"
    /\ stdout' = Append(stdout, Line("device", device, 0))
    /\ pc' = Succ(pc)
    /\ UNCHANGED << env, failed_at, args_arg, device, data, mlp, opt_state, loop,
                    cur, accs, saved, hist >>

\* train_dataset = MNIST(train=True, ...); test_dataset = MNIST(train=False, ...)
LoadDatasets ==
    /\ pc = "load_datasets"
    /\ train_dataset' = mnist.train
    /\ test_dataset' = mnist.test
    /\ pc' = Succ(pc)
    /\ UNCHANGED << env, failed_at, args_arg, stdout, device, train_len, val_len,
                    mlp, opt_state, loop, cur, accs, saved, hist >>

\* print('Datasets loaded', flush=True)
PrintLoaded ==
    /\ pc = "print_loaded"
    /\ stdout' = Append(stdout, Line("loaded", "", 0))
    /\ pc' = Succ(pc)
    /\ UNCHANGED << env, failed_at, args_arg, device, data, mlp, opt_state, loop,
                    cur, accs, saved, hist >>

\* train_dataloader = DataLoader(...); validation_dataloader = DataLoader(...)
MakeLoaders ==
    /\ pc = "make_loaders"
    /\ train_len' = len_dataloader(train_dataset)
    /\ val_len' = len_dataloader(test_dataset)
    /\ pc' = Succ(pc)
    /\ UNCHANGED << env, failed_at, args_arg, stdout, device, train_dataset,
                    test_dataset, mlp, opt_state, loop, cur, accs, saved, hist >>

\* mlp = nn.Sequential(...).to(device); loss_fn = ...; optimizer = Adam(...)
BuildModel ==
    /\ pc = "build_model"
    /\ mlp' = [NoModel EXCEPT !.device = To(device)]
    /\ opt_state' = 0
    /\ pc' = Succ(pc)
    /\ UNCHANGED << env, failed_at, args_arg, stdout, device, data, loop, cur,
                    accs, saved, hist >>

\* for epoch in range(5):
ForEpoch ==
    /\ pc = "for_epoch"
    /\ IF epoch_it < NumEpochs
         THEN /\ epoch' = epoch_it
              /\ epoch_it' = epoch_it + 1
              /\ pc' = Succ(pc)
         ELSE /\ pc' = LoopExit(pc)
              /\ UNCHANGED << epoch, epoch_it >>
    /\ UNCHANGED << env, failed_at, args_arg, stdout, device, data, mlp, opt_state,
                    loader_it, cur, accs, saved, hist >>

\* mlp.train(); train_loss, train_acc = 0, 0; the for statement of line 57
\* then asks train_dataloader for a new iterator
TrainMode ==
    /\ pc = "train_mode"
    /\ mlp' = [mlp EXCEPT !.training = TRUE]
    /\ train_loss' = Zero
    /\ train_acc' = Zero
    /\ loader_it' = 0
    /\ train_log' = << >>
    /\ pc' = Succ(pc)
    /\ UNCHANGED << env, failed_at, args_arg, stdout, device, data, opt_state,
                    epoch_it, epoch, cur, val_loss, val_acc, saved,
                    batch_trace, val_log, val_evals, params_at_train_end >>

\* for X, y in train_dataloader:
TrainNext ==
    /\ pc = "train_next"
    /\ IF loader_it < train_len
         THEN /\ X' = [split |-> "train", idx |-> loader_it,
                       size |-> BatchLen(train_dataset, loader_it), device |-> "cpu"]
              /\ loader_it' = loader_it + 1
              /\ batch_trace' = << >>
              /\ pc' = Succ(pc)
         ELSE /\ pc' = LoopExit(pc)
              /\ UNCHANGED << X, loader_it, batch_trace >>
    /\ UNCHANGED << env, failed_at, args_arg, stdout, device, data, mlp, opt_state,
                    epoch_it, epoch, y_pred, loss, acc, accs, saved,
                    train_log, val_log, val_evals, params_at_train_end >>

\* X, y = X.to(device), y.to(device)
TrainTo ==
    /\ pc = "train_to"
    /\ X' = [X EXCEPT !.device = To(device)]
    /\ batch_trace' = Append(batch_trace, "to")
    /\ pc' = Succ(pc)
    /\ UNCHANGED << env, failed_at, args_arg, stdout, device, data, mlp, opt_state,
                    loop, y_pred, loss, acc, accs, saved,
                    train_log, val_log, val_evals, params_at_train_end >>

\* y_pred = mlp(X)
TrainForward ==
    /\ pc = "train_forward"
    /\ \E o \in Outcomes(X.size) :
         y_pred' = [batch |-> <<epoch, X.idx>>, correct |-> o.correct,
                    loss |-> o.loss, grad |-> TRUE]
    /\ mlp' = [mlp EXCEPT !.buffers = ForwardBuffers(mlp)]
    /\ batch_trace' = Append(batch_trace, "forward")
    /\ pc' = Succ(pc)
    /\ UNCHANGED << env, failed_at, args_arg, stdout, device, data, opt_state,
                    loop, X, loss, acc, accs, saved,
                    train_log, val_log, val_evals, params_at_train_end >>

\* loss = loss_fn(y_pred, y)
TrainLoss ==
    /\ pc = "train_loss"
    /\ loss' = [batch |-> y_pred.batch, value |-> y_pred.loss, grad |-> y_pred.grad]
    /\ batch_trace' = Append(batch_trace, "loss")
    /\ pc' = Succ(pc)
    /\ UNCHANGED << env, failed_at, args_arg, stdout, device, data, mlp, opt_state,
                    loop, X, y_pred, acc, accs, saved,
                    train_log, val_log, val_evals, params_at_train_end >>

\* acc = (y_pred.argmax(-1) == y).float().mean()
TrainAcc ==
    /\ pc = "train_acc"
    /\ acc' = MeanCorrect(y_pred.correct, X.size)
    /\ batch_trace' = Append(batch_trace, "acc")
    /\ pc' = Succ(pc)
    /\ UNCHANGED << env, failed_at, args_arg, stdout, device, data, mlp, opt_state,
                    loop, X, y_pred, loss, accs, saved,
                    train_log, val_log, val_evals, params_at_train_end >>

\* optimizer.zero_grad()
ZeroGradStep ==
    /\ pc = "zero_grad"
    /\ mlp' = [mlp EXCEPT !.grads = ZeroGrad(mlp.grads)]
    /\ batch_trace' = Append(batch_trace, "zero_grad")
    /\ pc' = Succ(pc)
    /\ UNCHANGED << env, failed_at, args_arg, stdout, device, data, opt_state,
                    loop, cur, accs, saved,
                    train_log, val_log, val_evals, params_at_train_end >>

\* loss.backward(): needs a loss that carries a graph
BackwardStep ==
    /\ pc = "backward"
    /\ loss.grad
    /\ mlp' = [mlp EXCEPT !.grads = Backward(mlp.grads, loss.batch)]
    /\ batch_trace' = Append(batch_trace, "backward")
    /\ pc' = Succ(pc)
    /\ UNCHANGED << env, failed_at, args_arg, stdout, device, data, opt_state,
                    loop, cur, accs, saved,
                    train_log, val_log, val_evals, params_at_train_end >>

\* optimizer.step()
OptStep ==
    /\ pc = "opt_step"
    /\ mlp' = [mlp EXCEPT !.params = mlp.params + 1]
    /\ opt_state' = opt_state + 1
    /\ batch_trace' = Append(batch_trace, "step")
    /\ pc' = Succ(pc)
    /\ UNCHANGED << env, failed_at, args_arg, stdout, device, data,
                    loop, cur, accs, saved,
                    train_log, val_log, val_evals, params_at_train_end >>

\* train_loss += loss.item(); train_acc += acc.item()
TrainAccum ==
    /\ pc = "train_accum"
    /\ train_loss' = Accumulate(train_loss, loss.value)
    /\ train_acc' = Accumulate(train_acc, acc)
    /\ train_log' = Append(train_log, [idx |-> X.idx, size |-> X.size,
                                       correct |-> y_pred.correct,
                                       loss |-> y_pred.loss])
    /\ pc' = Succ(pc)
    /\ UNCHANGED << env, failed_at, args_arg, stdout, device, data, mlp, opt_state,
                    loop, cur, val_loss, val_acc, saved,
                    batch_trace, val_log, val_evals, params_at_train_end >>

\* train_loss /= len(train_dataloader); train_acc /= len(train_dataloader)
TrainAvg ==
    /\ pc = "train_avg"
    /\ train_loss' = Average(train_loss, train_len)
    /\ train_acc' = Average(train_acc, train_len)
    /\ params_at_train_end' = mlp.params
    /\ pc' = Succ(pc)
    /\ UNCHANGED << env, failed_at, args_arg, stdout, device, data, mlp, opt_state,
                    loop, cur, val_loss, val_acc, saved,
                    batch_trace, train_log, val_log, val_evals >>

\* mlp.eval(); val_loss, val_acc = 0, 0; the for statement of line 73 then
\* asks validation_dataloader for a new iterator
EvalMode ==
    /\ pc = "eval_mode"
    /\ mlp' = [mlp EXCEPT !.training = FALSE]
    /\ val_loss' = Zero
    /\ val_acc' = Zero
    /\ loader_it' = 0
    /\ val_log' = << >>
    /\ pc' = Succ(pc)
    /\ UNCHANGED << env, failed_at, args_arg, stdout, device, data, opt_state,
                    epoch_it, epoch, cur, train_loss, train_acc, saved,
                    batch_trace, train_log, val_evals, params_at_train_end >>

\* for X, y in validation_dataloader:
ValNext ==
    /\ pc = "val_next"
    /\ IF loader_it < val_len
         THEN /\ X' = [split |-> "val", idx |-> loader_it,
                       size |-> BatchLen(test_dataset, loader_it), device |-> "cpu"]
              /\ loader_it' = loader_it + 1
              /\ batch_trace' = << >>
              /\ pc' = Succ(pc)
         ELSE /\ pc' = LoopExit(pc)
              /\ UNCHANGED << X, loader_it, batch_trace >>
    /\ UNCHANGED << env, failed_at, args_arg, stdout, device, data, mlp, opt_state,
                    epoch_it, epoch, y_pred, loss, acc, accs, saved,
                    train_log, val_log, val_evals, params_at_train_end >>

\* X, y = X.to(device), y.to(device)
ValTo ==
    /\ pc = "val_to"
    /\ X' = [X EXCEPT !.device = To(device)]
    /\ batch_trace' = Append(batch_trace, "to")
    /\ pc' = Succ(pc)
    /\ UNCHANGED << env, failed_at, args_arg, stdout, device, data, mlp, opt_state,
                    loop, y_pred, loss, acc, accs, saved,
                    train_log, val_log, val_evals, params_at_train_end >>

\* with torch.inference_mode(): y_pred = mlp(X)
ValForward ==
    /\ pc = "val_forward"
    /\ \E o \in Outcomes(X.size) :
         y_pred' = [batch |-> <<epoch, X.idx>>, correct |-> o.correct,
                    loss |-> o.loss, grad |-> FALSE]
    /\ mlp' = [mlp EXCEPT !.buffers = ForwardBuffers(mlp)]
    /\ val_evals' = val_evals + 1
    /\ batch_trace' = Append(batch_trace, "forward")
    /\ pc' = Succ(pc)
    /\ UNCHANGED << env, failed_at, args_arg, stdout, device, data, opt_state,
                    loop, X, loss, acc, accs, saved,
                    train_log, val_log, params_at_train_end >>

\* loss = loss_fn(y_pred, y)
ValLoss ==
    /\ pc = "val_loss"
    /\ loss' = [batch |-> y_pred.batch, value |-> y_pred.loss, grad |-> y_pred.grad]
    /\ batch_trace' = Append(batch_trace, "loss")
    /\ pc' = Succ(pc)
    /\ UNCHANGED << env, failed_at, args_arg, stdout, device, data, mlp, opt_state,
                    loop, X, y_pred, acc, accs, saved,
                    train_log, val_log, val_evals, params_at_train_end >>

\* acc = (y_pred.argmax(-1) == y).float().mean()
ValAcc ==
    /\ pc = "val_acc"
    /\ acc' = MeanCorrect(y_pred.correct, X.size)
    /\ batch_trace' = Append(batch_trace, "acc")
    /\ pc' = Succ(pc)
    /\ UNCHANGED << env, failed_at, args_arg, stdout, device, data, mlp, opt_state,
                    loop, X, y_pred, loss, accs, saved,
                    train_log, val_log, val_evals, params_at_train_end >>

\* val_loss += loss.item(); val_acc += acc.item()
ValAccum ==
    /\ pc = "val_accum"
    /\ val_loss' = Accumulate(val_loss, loss.value)
    /\ val_acc' = Accumulate(val_acc, acc)
    /\ val_log' = Append(val_log, [idx |-> X.idx, size |-> X.size,
                                   correct |-> y_pred.correct,
                                   loss |-> y_pred.loss])
    /\ pc' = Succ(pc)
    /\ UNCHANGED << env, failed_at, args_arg, stdout, device, data, mlp, opt_state,
                    loop, cur, train_loss, train_acc, saved,
                    batch_trace, train_log, val_evals, params_at_train_end >>

\* val_loss /= len(validation_dataloader); val_acc /= len(validation_dataloader)
ValAvg ==
    /\ pc = "val_avg"
    /\ val_loss' = Average(val_loss, val_len)
    /\ val_acc' = Average(val_acc, val_len)
    /\ pc' = Succ(pc)
    /\ UNCHANGED << env, failed_at, args_arg, stdout, device, data, mlp, opt_state,
                    loop, cur, train_loss, train_acc, saved, hist >>

\* print(f'Epoch: {epoch} | Train Loss: ... | Validation accuracy: ...', flush=True)
PrintMetrics ==
    /\ pc = "print_metrics"
    /\ stdout' = Append(stdout, Line("metrics", "", epoch))
    /\ pc' = Succ(pc)
    /\ UNCHANGED << env, failed_at, args_arg, device, data, mlp, opt_state, loop,
                    cur, accs, saved, hist >>

\* torch.save(mlp.state_dict(), 'models/mlp_demo.pt')
Save ==
    /\ pc = "save"
    /\ saved' = Append(saved, state_dict(mlp))
    /\ pc' = Succ(pc)
    /\ UNCHANGED << env, failed_at, args_arg, stdout, device, data, mlp, opt_state,
                    loop, cur, accs, hist >>

\* A framework call raises; nothing catches it
Fail ==
    /\ pc \in Fallible
    /\ failed_at = "none"
    /\ failed_at' = pc
    /\ pc' = OnFailure(pc)
    /\ UNCHANGED << env, args_arg, stdout, device, data, mlp, opt_state, loop,
                    cur, accs, saved, hist >>

Next ==
    \/ ParseArgs \/ PrintArgs \/ SelectDevice \/ PrintDevice
    \/ LoadDatasets \/ PrintLoaded \/ MakeLoaders \/ BuildModel
    \/ ForEpoch
    \/ TrainMode \/ TrainNext \/ TrainTo \/ TrainForward \/ TrainLoss \/ TrainAcc
    \/ ZeroGradStep \/ BackwardStep \/ OptStep \/ TrainAccum \/ TrainAvg
    \/ EvalMode \/ ValNext \/ ValTo \/ ValForward \/ ValLoss \/ ValAcc
    \/ ValAccum \/ ValAvg
    \/ PrintMetrics \/ Save \/ Fail

Spec == Init /\ [][Next]_vars

\* The interpreter runs the single thread of main() until it ends
FairSpec == Spec /\ WF_vars(Next)

-----------------------------------------------------------------------------
(* Derived quantities used by the properties *)

MetricsLines == SelectSeq(stdout, LAMBDA l : l.kind = "metrics")

NumMetrics == Len(MetricsLines)

RECURSIVE SumLoss(_)
SumLoss(log) == IF log = << >> THEN Zero ELSE RatAdd(SumLoss(Tail(log)), Head(log).loss)

RECURSIVE SumBatchAcc(_)
SumBatchAcc(log) ==
    IF log = << >> THEN Zero
    ELSE RatAdd(SumBatchAcc(Tail(log)), Rat(Head(log).correct, Head(log).size))

RECURSIVE SumCorrect(_)
SumCorrect(log) == IF log = << >> THEN 0 ELSE Head(log).correct + SumCorrect(Tail(log))

RECURSIVE SumSize(_)
SumSize(log) == IF log = << >> THEN 0 ELSE Head(log).size + SumSize(Tail(log))

\* the batches of a log are batch 0, 1, 2, ... each once, in order
EachBatchOnce(log) == \A i \in 1..Len(log) : log[i].idx = i - 1

\* number of batches of 64 that n samples fill, the last one possibly smaller
NumBatches(n) == CHOOSE k \in 0..n : 64 * (k - 1) < n /\ n <= 64 * k

BeforeLoop == { "parse_args", "print_args", "select_device", "print_device",
                "load_datasets", "print_loaded", "make_loaders", "build_model" }

TrainPass == TrainBody \cup { "train_next", "train_avg" }

ValPass == ValBody \cup { "eval_mode", "val_next", "val_avg" }

-----------------------------------------------------------------------------
\* C1: without --arg the first line printed carries "default_arg", with
\* --arg v it carries v, and this line is the first line of the run.
C1_ArgLineFirst ==
    /\ pc \notin { "parse_args", "print_args" } => Len(stdout) >= 1
    /\ Len(stdout) >= 1 =>
         stdout[1] = Line("args", IF argv = NoArgs THEN "default_arg" ELSE argv[2], 0)

\* C2: the weights file is written exactly once, by the last statement of a
\* run that went through the training pass, the evaluation pass and the
\* metrics line of all 5 epochs; no earlier state has a written file.
C2_SavedOnceAtEnd ==
    /\ Len(saved) <= 1
    /\ pc # "done" => saved = << >>
    /\ pc = "done" => Len(saved) = 1
    /\ saved # << >> =>
         /\ NumMetrics = 5
         /\ opt_state = 5 * NumBatches(train_dataset)
         /\ val_evals = 5 * NumBatches(test_dataset)
         /\ saved[1] = state_dict(mlp)

C2_Witness == pc = "done" /\ Len(saved) = 1 /\ train_len = 2 /\ val_len = 2

\* C3: the lines appear in the order arguments, device, datasets loaded,
\* then the metrics lines of epochs 0..4; the metrics line of epoch e is
\* printed after the training and evaluation passes of epoch e and before
\* any training batch of epoch e+1.
C3_LineOrder ==
    /\ Len(stdout) <= 8
    /\ pc = "done" => Len(stdout) = 8
    /\ \A i \in 1..Len(stdout) :
         stdout[i].kind = CASE i = 1 -> "args" [] i = 2 -> "device"
                            [] i = 3 -> "loaded" [] OTHER -> "metrics"
    /\ Len(stdout) >= 2 => stdout[2].arg = device /\ device # "none"
    /\ Len(stdout) >= 3 => train_dataset # 0 /\ test_dataset # 0
    /\ \A i \in 4..Len(stdout) : stdout[i].epoch = i - 4
    /\ opt_state >= NumMetrics * train_len
    /\ val_evals >= NumMetrics * val_len
    /\ opt_state <= (NumMetrics + 1) * train_len
    /\ pc \in TrainBody => epoch = NumMetrics

C3_Witness == pc = "done" /\ Len(stdout) = 8 /\ stdout[8].epoch = 4

\* C4: a failure ends the run at the failing statement: no step follows it;
\* a failure before the save leaves no weights file, and a failure of the
\* save comes after all 5 epochs and leaves no weights file either.
C4_State ==
    /\ failed_at # "none" <=> pc = "failed"
    /\ failed_at # "none" => saved = << >>
    /\ failed_at = "save" => NumMetrics = 5 /\ opt_state = 5 * train_len
    /\ failed_at \notin { "none", "save" } => NumMetrics < 5

\* C4: after a failure the run is over (C4_State holds throughout) and no
\* step is ever taken from a state in which a call has failed.
C4_FailureEndsRun == [](C4_State) /\ [][failed_at = "none"]_vars

C4_Witness == pc = "failed" /\ failed_at = "val_forward" /\ epoch = 3

\* C5: the device is chosen once, before the datasets are loaded, as cuda
\* when available and cpu otherwise; it never changes afterwards, and the
\* model and every batch that is processed live on it.
C5_State ==
    /\ device = "none" <=> pc \in { "parse_args", "print_args", "select_device" }
    /\ device # "none" => device = (IF cuda_available THEN "cuda" ELSE "cpu")
    /\ train_dataset # 0 => device # "none"
    /\ pc \notin BeforeLoop /\ failed_at \notin BeforeLoop => mlp.device = device
    /\ pc \in (TrainBody \cup ValBody) \ { "train_to", "val_to" } => X.device = device

\* C5: C5_State holds throughout and, once selected, the device is never
\* assigned a different value.
C5_DeviceFixed == [](C5_State) /\ [][device # "none" => device' = device]_vars

C5_Witness ==
    /\ pc = "val_forward" /\ epoch = 4 /\ X.idx = 1
    /\ device = "cuda" /\ X.device = "cuda" /\ mlp.device = "cuda"

\* C6: in every epoch the whole training pass precedes the evaluation pass;
\* parameters and optimizer state change only in the optimizer step of a
\* training batch; no step of an evaluation pass changes them, so training
\* of epoch e+1 starts from the parameters training of epoch e ended with.
C6_State ==
    /\ pc \in ValPass \cup { "print_metrics" } =>
         /\ opt_state = (epoch + 1) * train_len
         /\ mlp.params = params_at_train_end
    /\ pc \in TrainPass => val_evals = epoch * val_len
    /\ pc \in ValBody \ { "val_to", "val_forward" } => ~ y_pred.grad
    /\ pc = "train_next" /\ loader_it = 0 /\ epoch > 0 =>
         mlp.params = params_at_train_end

C6_Step ==
    /\ (mlp'.params # mlp.params \/ opt_state' # opt_state) =>
          pc = "opt_step" /\ X.split = "train" /\ mlp.training
    /\ pc \in ValPass => mlp'.params = mlp.params /\ opt_state' = opt_state

\* C6: C6_State holds throughout and every step obeys C6_Step: only an
\* optimizer step on a training batch changes parameters or optimizer state.
C6_EvalLeavesParameters == [](C6_State) /\ [][C6_Step]_vars

C6_Witness ==
    /\ pc = "train_next" /\ loader_it = 0 /\ epoch = 2
    /\ val_len = 2 /\ mlp.params = params_at_train_end /\ mlp.params > 0

\* C7: each of the four reported figures is the sum of one contribution per
\* batch of its pass in this epoch, starting from zero, divided by the
\* number of batches of its loader.
C7_PerEpochAverages ==
    /\ pc = "train_next" /\ loader_it = 0 => train_loss = Zero /\ train_acc = Zero
    /\ pc = "val_next" /\ loader_it = 0 => val_loss = Zero /\ val_acc = Zero
    /\ pc \in TrainBody \cup { "train_next" } =>
         /\ train_loss = SumLoss(train_log)
         /\ train_acc = SumBatchAcc(train_log)
    /\ pc \in ValBody \cup { "val_next" } =>
         /\ val_loss = SumLoss(val_log)
         /\ val_acc = SumBatchAcc(val_log)
    /\ pc = "print_metrics" =>
         /\ Len(train_log) = NumBatches(train_dataset) /\ EachBatchOnce(train_log)
         /\ Len(val_log) = NumBatches(test_dataset) /\ EachBatchOnce(val_log)
         /\ train_loss = RatDiv(SumLoss(train_log), NumBatches(train_dataset))
         /\ train_acc = RatDiv(SumBatchAcc(train_log), NumBatches(train_dataset))
         /\ val_loss = RatDiv(SumLoss(val_log), NumBatches(test_dataset))
         /\ val_acc = RatDiv(SumBatchAcc(val_log), NumBatches(test_dataset))

C7_Witness ==
    /\ pc = "print_metrics" /\ epoch = 4
    /\ train_len = 2 /\ val_len = 2
    /\ train_acc = Rat(1, 2) /\ val_acc = Rat(1, 1) /\ train_loss = Rat(9, 8)

\* C8: the accuracy reported for a pass is (samples classified correctly) /
\* (samples of the split), also when the last batch is smaller than 64.
C8_AccuracyOverSplit ==
    pc = "print_metrics" =>
        /\ train_acc = Rat(SumCorrect(train_log), train_dataset)
        /\ val_acc = Rat(SumCorrect(val_log), test_dataset)

\* C9: the run ends; a run that ends without a failure ran 5 epochs, took one
\* optimizer step per training batch per epoch and evaluated every
\* validation batch once per epoch, each pass covering its whole split.
C9_State ==
    /\ pc = "train_avg" =>
         /\ EachBatchOnce(train_log) /\ SumSize(train_log) = train_dataset
         /\ opt_state = (epoch + 1) * NumBatches(train_dataset)
    /\ pc = "val_avg" =>
         /\ EachBatchOnce(val_log) /\ SumSize(val_log) = test_dataset
         /\ val_evals = (epoch + 1) * NumBatches(test_dataset)
    /\ pc = "done" =>
         /\ failed_at = "none"
         /\ epoch_it = 5 /\ epoch = 4 /\ NumMetrics = 5
         /\ opt_state = 5 * NumBatches(train_dataset)
         /\ val_evals = 5 * NumBatches(test_dataset)

\* C9: C9_State holds throughout and every run eventually reaches the end of
\* main() or a failure.
C9_Terminates == [](C9_State) /\ <>(pc = "done" \/ failed_at # "none")

C9_Witness == pc = "done" /\ opt_state = 10 /\ val_evals = 10 /\ train_dataset = 65

\* C10: a training batch goes through forward, loss, zero_grad, backward,
\* optimizer step in this order; the optimizer step uses the gradients of
\* the current batch alone; training batches are processed in training mode
\* and validation batches in evaluation mode.
C10_BatchDiscipline ==
    /\ pc = "opt_step" => mlp.grads = { <<epoch, X.idx>> }
    /\ pc = "train_accum" =>
         SelectSeq(batch_trace, LAMBDA st : st \notin { "to", "acc" })
            = << "forward", "loss", "zero_grad", "backward", "step" >>
    /\ pc \in TrainBody => mlp.training /\ X.split = "train"
    /\ pc \in ValBody => ~ mlp.training /\ X.split = "val"

C10_Witness ==
    /\ pc = "opt_step" /\ epoch = 1 /\ X.idx = 1
    /\ mlp.grads = { <<1, 1>> } /\ opt_state = 3

====
